---- MODULE Spec2Model ----
(***************************************************************************)
(* jira_create_release.py: one run of the JIRA Release Creator against an  *)
(* issue tracker.  The program state is the JiraReleaseCreator object, the *)
(* locals of run() and the position of the run; the tracker (the versions  *)
(* it holds and the fixVersions of the tickets that match the JQL filter)  *)
(* is the environment.  Every HTTP request issued and every line printed   *)
(* is recorded.                                                            *)
(***************************************************************************)
EXTENDS Integers, Sequences, FiniteSets, TLC

VARIABLES
    environ,        \* os.environ: JIRA_USERNAME, JIRA_API_TOKEN
    constructed,    \* JiraReleaseCreator.__init__ has returned
    jira_username,  \* self.jira_username
    jira_api_token, \* self.jira_api_token
    pc,             \* position of the run
    exit_code,      \* process exit code, -1 while the process runs
    current_user,   \* create_release: current_user
    release,        \* run: release
    release_id,     \* run: release_id
    issues,         \* run: issues
    i,              \* add_fix_version_to_tickets: index of the loop
    requests,       \* every HTTP request issued, in order, with its outcome
    output,         \* every line printed, in order
    versions,       \* tracker: ids of the versions created by this run
    tickets,        \* tracker: fixVersion ids of the matching tickets, created ASC
    matched         \* tracker: value of tickets when the search was answered

vars == <<environ, constructed, jira_username, jira_api_token, pc, exit_code,
          current_user, release, release_id, issues, i, requests, output,
          versions, tickets, matched>>

----------------------------------------------------------------------------
(* Bounds of the model *)

MaxTickets == 3

\* 'maxResults': 1000 in the source; scaled down so that a tracker of
\* MaxTickets matching tickets can exceed the cap.
maxResults == 2

----------------------------------------------------------------------------
(* Values *)

None == "None"

EmptyDict == [k \in {} |-> k]

Range(s) == {s[n] : n \in DOMAIN s}

\* dict.get(key, default)
DictGet(d, key, default) == IF key \in DOMAIN d THEN d[key] ELSE default

\* Python truth value of an optional string: None and '' are false
Truthy(v) == v # None /\ v # ""

\* args.release_name, args.project
release_name == "v1.2.3"
project_name == "PROJ"

\* The id the tracker assigns to the version it creates
ReleaseId == "10050"

EnvValues == {None, "", "set"}

\* The fixVersion lists a matching ticket can hold before the run: the tracker
\* keeps a ticket's versions free of duplicates
ExistingLists == {<<>>, <<"9000">>, <<"9001", "9000">>}

TicketLists == UNION {[1..n -> ExistingLists] : n \in 0..MaxTickets}

InsertAt(s, p, v) == SubSeq(s, 1, p - 1) \o <<v>> \o SubSeq(s, p, Len(s))

----------------------------------------------------------------------------
(* The tracker's answers *)

Response(status, json) == [status_code |-> status, text_empty |-> FALSE, json |-> json]

NoContent(status) == [status_code |-> status, text_empty |-> TRUE, json |-> EmptyDict]

Answered(resp) == [kind |-> "response", response |-> resp]

NetworkError == [kind |-> "network_error", response |-> NoContent(0)]

ErrorStatuses == {404, 500}

ErrorOutcomes ==
    {NetworkError} \cup {Answered(Response(s, [errorMessages |-> "error"])) : s \in ErrorStatuses}

\* GET /rest/api/2/myself
MyselfOutcomes ==
    ErrorOutcomes \cup
    { Answered(Response(200, [key |-> "jdoe", name |-> "jdoe"])),
      Answered(Response(200, [name |-> "jdoe"])) }

\* POST /rest/api/2/version
VersionOutcomes ==
    ErrorOutcomes \cup
    { Answered(Response(201, [id |-> ReleaseId, name |-> release_name])),
      Answered(Response(201, [name |-> release_name])),
      Answered(Response(201, [id |-> "", name |-> release_name])),
      Answered(NoContent(200)),
      Answered(NoContent(204)) }

\* One issue of a search answer, with the fields the search asks for
IssueOf(k, ids) ==
    [key |-> k, fields |-> [fixVersions |-> [n \in 1..Len(ids) |-> [id |-> ids[n]]]]]

Min(a, b) == IF a <= b THEN a ELSE b

\* GET /rest/api/2/search: the matching tickets ORDER BY created ASC, at most
\* maxResults of them
SearchAnswer(ts) ==
    [issues |-> [k \in 1..Min(Len(ts), maxResults) |-> IssueOf(k, ts[k])],
     total |-> Len(ts)]

SearchOutcomes(ts) == ErrorOutcomes \cup {Answered(Response(200, SearchAnswer(ts)))}

\* PUT /rest/api/2/issue/{key}
IssueOutcomes == ErrorOutcomes \cup {Answered(NoContent(204))}

Is2xx(o) == o.kind = "response" /\ o.response.status_code \in 200..299

----------------------------------------------------------------------------
(* _make_jira_request *)

\* Variant: no status raises
RaisesForStatus_Never(status) == FALSE

\* response.raise_for_status(): HTTPError for 4xx and 5xx
RaisesForStatus(status) == 400 <= status /\ status < 600

\* requests.Response.__bool__: the response's ok, false for 4xx and 5xx
ResponseBool(resp) == ~RaisesForStatus(resp.status_code)

\* The outcome of the try block: the exception raised, with its response when
\* it carries one, or the value returned
MakeJiraRequest(o) ==
    IF o.kind = "network_error"
    THEN [raised |-> TRUE, response |-> <<>>, value |-> EmptyDict]
    ELSE IF RaisesForStatus(o.response.status_code)
    THEN [raised |-> TRUE, response |-> <<o.response>>, value |-> EmptyDict]
    ELSE [raised |-> FALSE, response |-> <<>>,
          value |-> IF o.response.status_code = 204 \/ o.response.text_empty
                    THEN EmptyDict
                    ELSE o.response.json]

\* The lines the except block prints for exception e
ErrorReport(e) ==
    <<[line |-> "Error making request to JIRA API"]>> \o
    (IF Len(e.response) = 1 /\ ResponseBool(e.response[1])
     THEN <<[line |-> "Response status code", status_code |-> e.response[1].status_code],
            [line |-> "Response body", json |-> e.response[1].json]>>
     ELSE <<>>)

Request(method, path, key, data, o) ==
    [method |-> method, path |-> path, key |-> key, data |-> data, outcome |-> o]

\* sys.exit(1) after printing lines
Exit1(lines) ==
    /\ pc' = "Aborted"
    /\ exit_code' = 1
    /\ output' = output \o lines

----------------------------------------------------------------------------
(* __init__ *)

\* Variant: only the absence of both credentials is an error
CredentialsMissing_Both(username, token) == ~Truthy(username) /\ ~Truthy(token)

CredentialsMissing(username, token) == ~Truthy(username) \/ ~Truthy(token)

Init ==
    /\ environ \in [JIRA_USERNAME : EnvValues, JIRA_API_TOKEN : EnvValues]
    /\ constructed = FALSE
    /\ jira_username = None
    /\ jira_api_token = None
    /\ pc = "Init"
    /\ exit_code = -1
    /\ current_user = EmptyDict
    /\ release = EmptyDict
    /\ release_id = None
    /\ issues = <<>>
    /\ i = 1
    /\ requests = <<>>
    /\ output = <<>>
    /\ versions = {}
    /\ tickets \in TicketLists
    /\ matched = <<>>

Construct ==
    /\ pc = "Init"
    /\ ~constructed
    /\ jira_username' = environ.JIRA_USERNAME
    /\ jira_api_token' = environ.JIRA_API_TOKEN
    /\ IF CredentialsMissing(environ.JIRA_USERNAME, environ.JIRA_API_TOKEN)
       THEN /\ Exit1(<<[line |-> "Error: JIRA_USERNAME and JIRA_API_TOKEN environment variables must be set."]>>)
            /\ UNCHANGED constructed
       ELSE /\ constructed' = TRUE
            /\ UNCHANGED <<pc, exit_code, output>>
    /\ UNCHANGED <<environ, current_user, release, release_id, issues, i,
                   requests, versions, tickets, matched>>

----------------------------------------------------------------------------
(* run, create_release: get_current_user *)

GetCurrentUser ==
    /\ pc = "Init"
    /\ constructed
    /\ \E o \in MyselfOutcomes :
        LET r == MakeJiraRequest(o)
            started == <<[line |-> "Starting JIRA Release Creator"]>>
        IN  /\ requests' = Append(requests, Request("GET", "/rest/api/2/myself", 0, EmptyDict, o))
            /\ IF r.raised
               THEN /\ Exit1(started \o ErrorReport(r))
                    /\ UNCHANGED current_user
               ELSE /\ current_user' = r.value
                    /\ pc' = "UserIdentified"
                    /\ output' = output \o started
                    /\ UNCHANGED exit_code
    /\ UNCHANGED <<environ, constructed, jira_username, jira_api_token, release,
                   release_id, issues, i, versions, tickets, matched>>

----------------------------------------------------------------------------
(* create_release: POST /rest/api/2/version *)

\* The JSON body of the creation request
ReleaseData(user) ==
    IF user # EmptyDict /\ "key" \in DOMAIN user
    THEN [name |-> release_name, project |-> project_name, released |-> FALSE,
          projectId |-> None, owner |-> user.key]
    ELSE [name |-> release_name, project |-> project_name, released |-> FALSE,
          projectId |-> None]

CreateRelease ==
    /\ pc = "UserIdentified"
    /\ \E o \in VersionOutcomes :
        LET r == MakeJiraRequest(o)
            creating == <<[line |-> "Creating release", name |-> release_name,
                           project |-> project_name]>>
        IN  /\ requests' = Append(requests,
                   Request("POST", "/rest/api/2/version", 0, ReleaseData(current_user), o))
            /\ versions' = IF Is2xx(o) THEN versions \cup {ReleaseId} ELSE versions
            /\ IF r.raised
               THEN /\ Exit1(creating \o ErrorReport(r))
                    /\ UNCHANGED release
               ELSE /\ release' = r.value
                    /\ pc' = "ReleaseCreated"
                    /\ output' = output \o creating \o
                           <<[line |-> "Release created successfully",
                              name |-> DictGet(r.value, "name", release_name)]>>
                    /\ UNCHANGED exit_code
    /\ UNCHANGED <<environ, constructed, jira_username, jira_api_token, current_user,
                   release_id, issues, i, tickets, matched>>

----------------------------------------------------------------------------
(* run: the release id, then get_tickets_with_status *)

\* Variant: the release id is never found missing
ReleaseIdMissing_Never(id) == FALSE

\* if not release_id
ReleaseIdMissing(id) == ~Truthy(id)

GetTicketsWithStatus ==
    /\ pc = "ReleaseCreated"
    /\ release_id' = DictGet(release, "id", None)
    /\ IF ReleaseIdMissing(release_id')
       THEN /\ Exit1(<<[line |-> "Error: Failed to get release ID from the created release"]>>)
            /\ UNCHANGED <<issues, requests, matched>>
       ELSE \E o \in SearchOutcomes(tickets) :
            LET r == MakeJiraRequest(o)
            IN  /\ requests' = Append(requests, Request("GET", "/rest/api/2/search", 0,
                       [jql |-> <<project_name, "ORDER BY created ASC">>,
                        fields |-> "key,summary,status,fixVersions",
                        maxResults |-> maxResults], o))
                /\ IF r.raised
                   THEN /\ Exit1(ErrorReport(r))
                        /\ UNCHANGED <<issues, matched>>
                   ELSE /\ issues' = DictGet(r.value, "issues", <<>>)
                        /\ matched' = tickets
                        /\ pc' = "TicketsQueried"
                        /\ output' = Append(output,
                               [line |-> "Found issues", count |-> Len(issues')])
                        /\ UNCHANGED exit_code
    /\ UNCHANGED <<environ, constructed, jira_username, jira_api_token, current_user,
                   release, i, versions, tickets>>

----------------------------------------------------------------------------
(* add_fix_version_to_tickets: one iteration of the loop *)

\* [v['id'] for v in current_fix_versions]
FixVersionIds(issue) ==
    LET current_fix_versions == DictGet(DictGet(issue, "fields", EmptyDict), "fixVersions", <<>>)
    IN  [n \in 1..Len(current_fix_versions) |-> current_fix_versions[n].id]

\* Variant: the membership test always finds the id absent
NotInFixVersions_Always(id, ids) == TRUE

\* release_id not in current_fix_version_ids
NotInFixVersions(id, ids) == id \notin Range(ids)

\* Variant: the new list holds the release id alone
AppendRelease_DropExisting(ids, id) == <<id>>

\* Variant: the release id is put in front of the existing ids
AppendRelease_Prepend(ids, id) == <<id>> \o ids

\* current_fix_version_ids.append(release_id)
AppendRelease(ids, id) == Append(ids, id)

\* The JSON body of the update request
IssueData(ids) ==
    [fields |-> [fixVersions |-> [n \in 1..Len(ids) |-> [id |-> ids[n]]]]]

\* Variant: the loop stays on the same issue
NextIssue_Stay(n) == n

\* The for loop moves to the next issue
NextIssue(n) == n + 1

\* The tracker replaces the ticket's fixVersions by the list of the body
TicketsAfterPut(ts, key, data) ==
    [ts EXCEPT ![key] = [n \in 1..Len(data.fields.fixVersions) |-> data.fields.fixVersions[n].id]]

AddFixVersion ==
    /\ pc = "TicketsQueried"
    /\ i <= Len(issues)
    /\ LET issue == issues[i]
           issue_key == issue.key
           current_fix_version_ids == FixVersionIds(issue)
       IN  IF NotInFixVersions(release_id, current_fix_version_ids)
           THEN \E o \in IssueOutcomes :
                LET r == MakeJiraRequest(o)
                    data == IssueData(AppendRelease(current_fix_version_ids, release_id))
                IN  /\ requests' = Append(requests,
                           Request("PUT", "/rest/api/2/issue/", issue_key, data, o))
                    /\ tickets' = IF Is2xx(o) THEN TicketsAfterPut(tickets, issue_key, data)
                                  ELSE tickets
                    /\ IF r.raised
                       THEN /\ Exit1(ErrorReport(r))
                            /\ UNCHANGED i
                       ELSE /\ output' = Append(output,
                                   [line |-> "Added fixVersion to issue", key |-> issue_key])
                            /\ i' = NextIssue(i)
                            /\ UNCHANGED <<pc, exit_code>>
           ELSE /\ output' = Append(output,
                       [line |-> "Issue already has the fixVersion", key |-> issue_key])
                /\ i' = NextIssue(i)
                /\ UNCHANGED <<pc, exit_code, requests, tickets>>
    /\ UNCHANGED <<environ, constructed, jira_username, jira_api_token, current_user,
                   release, release_id, issues, versions, matched>>

\* The loop is exhausted: add_fix_version_to_tickets returns
ReturnFromAddFixVersion ==
    /\ pc = "TicketsQueried"
    /\ i > Len(issues)
    /\ pc' = "TicketsUpdated"
    /\ UNCHANGED <<environ, constructed, jira_username, jira_api_token, exit_code,
                   current_user, release, release_id, issues, i, requests, output,
                   versions, tickets, matched>>

----------------------------------------------------------------------------
(* run: the final summary *)

\* Variant: the count is off by one
SummaryCount_PlusOne(found) == Len(found) + 1

\* len(issues)
SummaryCount(found) == Len(found)

Complete ==
    /\ pc = "TicketsUpdated"
    /\ pc' = "Done"
    /\ exit_code' = 0
    /\ output' = output \o
           <<[line |-> "JIRA Release Creator completed successfully!"],
             [line |-> "Created release and added it as a fixVersion to issues",
              name |-> release_name, count |-> SummaryCount(issues)]>>
    /\ UNCHANGED <<environ, constructed, jira_username, jira_api_token, current_user,
                   release, release_id, issues, i, requests, versions, tickets, matched>>

----------------------------------------------------------------------------
(* The environment: another client of the tracker tags a matching ticket     *)
(* with the version just created, before the run queries the tickets.       *)

OtherClientAddsFixVersion ==
    /\ pc = "ReleaseCreated"
    /\ ReleaseId \in versions
    /\ \E k \in DOMAIN tickets :
        /\ ReleaseId \notin Range(tickets[k])
        /\ \E p \in 1..(Len(tickets[k]) + 1) :
            tickets' = [tickets EXCEPT ![k] = InsertAt(tickets[k], p, ReleaseId)]
    /\ UNCHANGED <<environ, constructed, jira_username, jira_api_token, pc, exit_code,
                   current_user, release, release_id, issues, i, requests, output,
                   versions, matched>>

----------------------------------------------------------------------------

ProgramNext ==
    \/ Construct
    \/ GetCurrentUser
    \/ CreateRelease
    \/ GetTicketsWithStatus
    \/ AddFixVersion
    \/ ReturnFromAddFixVersion
    \/ Complete

Next == ProgramNext \/ OtherClientAddsFixVersion

Spec == Init /\ [][Next]_vars

\* The process is sequential and runs to its end: a step of the program that
\* is possible is taken
LiveSpec == Spec /\ WF_vars(ProgramNext)

----------------------------------------------------------------------------
(* Vocabulary of the properties *)

\* The requests of the log with method m
Indices(m) == {n \in DOMAIN requests : requests[n].method = m}

\* The PUT requests issued for the ticket of key k
PutsFor(k) == {n \in Indices("PUT") : requests[n].key = k}

\* The version ids a request body lists
BodyIds(data) == [n \in 1..Len(data.fields.fixVersions) |-> data.fields.fixVersions[n].id]

Printed(l) == \E n \in DOMAIN output : output[n] = l

NoDuplicates(s) == \A a, b \in DOMAIN s : a # b => s[a] # s[b]

\* s without the occurrences of v
Without(s, v) == SelectSeq(s, LAMBDA x : x # v)

\* The request failed: no response, or a response that is not 2xx
Failed(o) == ~Is2xx(o)

\* The search was answered: issues and matched hold its result
SearchAnswered == \E n \in DOMAIN requests :
    requests[n].path = "/rest/api/2/search" /\ Is2xx(requests[n].outcome)

\* The ticket of key k held the release id when the search was answered
HadRelease(k) == release_id \in Range(matched[k])

----------------------------------------------------------------------------
(* C1 *)

----------------------------------------------------------------------------
(* C2 *)

\* C2: for a returned ticket that already holds the release id, no PUT is
\* issued, its list on the tracker is unchanged, "already has the fixVersion"
\* is printed once the loop has passed it, and the run does not stop at it.
C2_TicketWithReleaseIsSkipped ==
    SearchAnswered =>
        \A k \in DOMAIN issues :
            HadRelease(k) =>
                /\ PutsFor(issues[k].key) = {}
                /\ tickets[issues[k].key] = matched[k]
                /\ (k < i => Printed([line |-> "Issue already has the fixVersion",
                                      key |-> issues[k].key]))
                /\ ~Printed([line |-> "Added fixVersion to issue", key |-> issues[k].key])
                /\ (pc = "Aborted" => i # k)
                /\ (pc = "Done" => i > k)

\* The loop has passed a ticket that already held the id and has gone on to a
\* later ticket
C2_Witness ==
    /\ pc = "TicketsQueried"
    /\ \E k \in DOMAIN issues : HadRelease(k) /\ k + 1 < i

----------------------------------------------------------------------------
(* C3 *)

\* C3: for a returned ticket that lacks the release id, one PUT is issued when
\* the loop reaches it and none before or again, and its body lists the
\* ticket's existing version ids in their order followed by the release id.
C3_PutAppendsReleaseOnce ==
    SearchAnswered =>
        \A k \in DOMAIN issues :
            ~HadRelease(k) =>
                /\ Cardinality(PutsFor(issues[k].key)) <= 1
                /\ (k < i => Cardinality(PutsFor(issues[k].key)) = 1)
                /\ (k > i => PutsFor(issues[k].key) = {})
                /\ (k = i /\ PutsFor(issues[k].key) # {} => pc = "Aborted")
                /\ \A n \in PutsFor(issues[k].key) :
                    /\ BodyIds(requests[n].data) = matched[k] \o <<release_id>>
                    /\ DOMAIN requests[n].data = {"fields"}
                    /\ DOMAIN requests[n].data.fields = {"fixVersions"}

\* A PUT was issued for a ticket that held two versions and lacked the id
C3_Witness ==
    /\ SearchAnswered
    /\ \E k \in DOMAIN issues :
        ~HadRelease(k) /\ Len(matched[k]) = 2 /\ k < i /\ PutsFor(issues[k].key) # {}

----------------------------------------------------------------------------
(* C4 *)

\* The creation request was answered 2xx by a response without an id field
AnswerLacksId(o) ==
    /\ Is2xx(o)
    /\ \/ o.response.status_code = 204
       \/ o.response.text_empty
       \/ "id" \notin DOMAIN o.response.json

\* C4: when the creation POST is answered without an id field (an empty or 204
\* answer included), the POST is the last request of the run, the next step of
\* the run aborts it with exit code 1, and the version stays on the tracker.
C4_NoIdAbortsBeforeSearch ==
    \A n \in Indices("POST") :
        AnswerLacksId(requests[n].outcome) =>
            /\ n = Len(requests)
            /\ Indices("PUT") = {} /\ Indices("DELETE") = {}
            /\ \A m \in DOMAIN requests : requests[m].path # "/rest/api/2/search"
            /\ pc \in {"ReleaseCreated", "Aborted"}
            /\ (pc = "ReleaseCreated" => /\ ENABLED (ProgramNext /\ pc' = "Aborted")
                                         /\ ~ENABLED (ProgramNext /\ pc' # "Aborted"))
            /\ (pc = "Aborted" => exit_code = 1)
            /\ ReleaseId \in versions

\* The run aborted after a 204 answer to the creation request
C4_Witness ==
    /\ pc = "Aborted"
    /\ Len(requests) = 2
    /\ requests[2].method = "POST"
    /\ requests[2].outcome = Answered(NoContent(204))
    /\ Printed([line |-> "Error: Failed to get release ID from the created release"])

----------------------------------------------------------------------------
(* C5 *)

EnvMissing(name) == environ[name] = None \/ environ[name] = ""

\* C5: with the username or the token unset or empty, construction aborts the
\* process with a nonzero exit code and no HTTP request is ever issued.
C5_MissingCredentialsAbort ==
    (EnvMissing("JIRA_USERNAME") \/ EnvMissing("JIRA_API_TOKEN")) =>
        /\ requests = <<>>
        /\ ~constructed
        /\ pc \in {"Init", "Aborted"}
        /\ (pc = "Init" => /\ ENABLED (Next /\ pc' = "Aborted")
                           /\ ~ENABLED (Next /\ pc' # "Aborted"))
        /\ (pc = "Aborted" => exit_code # 0 /\ exit_code # -1)

\* The process aborted with the username set and the token empty
C5_Witness ==
    /\ pc = "Aborted"
    /\ environ.JIRA_USERNAME = "set"
    /\ environ.JIRA_API_TOKEN = ""
    /\ exit_code = 1

----------------------------------------------------------------------------
(* C6 *)

----------------------------------------------------------------------------
(* C7 *)

States == <<"Init", "UserIdentified", "ReleaseCreated", "TicketsQueried",
            "TicketsUpdated", "Done">>

Rank(p) == CHOOSE n \in DOMAIN States : States[n] = p

\* A step keeps the state, moves it to the next one of States, or aborts
Forward ==
    \/ pc' = pc
    \/ pc' = "Aborted"
    \/ Rank(pc) < Len(States) /\ pc' = States[Rank(pc) + 1]

\* The requests issued are a prefix of: GET myself, POST version, GET search,
\* then PUTs of returned tickets in the order the search returned them
RequestOrder ==
    \A n \in DOMAIN requests :
        /\ n = 1 => requests[n].method = "GET" /\ requests[n].path = "/rest/api/2/myself"
        /\ n = 2 => requests[n].method = "POST" /\ requests[n].path = "/rest/api/2/version"
        /\ n = 3 => requests[n].method = "GET" /\ requests[n].path = "/rest/api/2/search"
        /\ n >= 4 => /\ requests[n].method = "PUT"
                     /\ requests[n].path = "/rest/api/2/issue/"
                     /\ \E k \in DOMAIN issues : issues[k].key = requests[n].key
        /\ n > 4 => requests[n - 1].key < requests[n].key

ForwardOnly ==
    /\ pc \in Range(States) \cup {"Aborted"}
    /\ pc \notin {"Done", "Aborted"} => ~ENABLED (Next /\ ~Forward)
    /\ pc \in {"Done", "Aborted"} => ~ENABLED Next

AbortPossible == ENABLED (Next /\ pc' = "Aborted")

\* C7, as stated: the requests follow the order, the run only moves forward,
\* Aborted is terminal, and Aborted can be entered from every non-terminal
\* state: from Init once the credentials are read, from UserIdentified and
\* ReleaseCreated, from TicketsQueried at a ticket that needs a PUT, and from
\* TicketsUpdated.
C7_AbortedReachableFromEveryState ==
    /\ RequestOrder
    /\ ForwardOnly
    /\ pc = "Init" /\ constructed => AbortPossible
    /\ pc \in {"UserIdentified", "ReleaseCreated"} => AbortPossible
    /\ pc = "TicketsQueried" /\ i <= Len(issues) /\ ~HadRelease(i) => AbortPossible
    /\ pc = "TicketsUpdated" => AbortPossible

\* C7, amended: the requests follow the order, the run only moves forward and
\* never revisits a state, Aborted is terminal, and Aborted can be entered from
\* Init, UserIdentified, ReleaseCreated and TicketsQueried (there exactly when
\* the next ticket needs a PUT) but never from TicketsUpdated, whose only step
\* leads to Done.
C7_LinearRunAbortsBeforeTicketsUpdated ==
    /\ RequestOrder
    /\ ForwardOnly
    /\ pc = "Init" =>
        (AbortPossible <=>
            constructed \/ EnvMissing("JIRA_USERNAME") \/ EnvMissing("JIRA_API_TOKEN"))
    /\ pc \in {"UserIdentified", "ReleaseCreated"} => AbortPossible
    /\ pc = "TicketsQueried" => (AbortPossible <=> i <= Len(issues) /\ ~HadRelease(i))
    /\ pc = "TicketsUpdated" => ~AbortPossible /\ ENABLED (Next /\ pc' = "Done")

\* The run has issued all the kinds of request, two PUTs among them, and has
\* left the loop
C7_Witness ==
    /\ pc = "TicketsUpdated"
    /\ Len(requests) = 5
    /\ requests[4].key = 1 /\ requests[5].key = 2

----------------------------------------------------------------------------
(* C8 *)

\* The search was answered with no ticket
ZeroTickets == SearchAnswered /\ issues = <<>>

\* C8: once the search has returned zero tickets, the run is never aborted and
\* issues no PUT, it reaches Done, and at Done the exit code is 0 and the
\* summary reports a count of zero.
C8_ZeroTicketsCompletes ==
    /\ [](ZeroTickets =>
            /\ pc # "Aborted"
            /\ Indices("PUT") = {}
            /\ pc = "Done" =>
                /\ exit_code = 0
                /\ Printed([line |-> "Created release and added it as a fixVersion to issues",
                            name |-> release_name, count |-> 0]))
    /\ (ZeroTickets ~> pc = "Done")

\* A run finished after a search that returned no ticket
C8_Witness ==
    /\ ZeroTickets
    /\ pc = "Done"
    /\ exit_code = 0
    /\ Len(requests) = 3

----------------------------------------------------------------------------
(* C9 *)

\* C9: a request that fails with a non-2xx response leaves that response's
\* status code and body in the report, and a failure without response leaves
\* neither.
C9_ReportHasStatusAndBody ==
    \A n \in DOMAIN requests :
        LET o == requests[n].outcome
        IN  /\ o.kind = "response" /\ ~Is2xx(o) =>
                /\ Printed([line |-> "Error making request to JIRA API"])
                /\ Printed([line |-> "Response status code",
                            status_code |-> o.response.status_code])
                /\ Printed([line |-> "Response body", json |-> o.response.json])
            /\ o.kind = "network_error" =>
                /\ Printed([line |-> "Error making request to JIRA API"])
                /\ \A m \in DOMAIN output :
                    output[m].line \notin {"Response status code", "Response body"}

----------------------------------------------------------------------------
(* C10 *)

\* The returned tickets for which the run issued a PUT
TicketsAdded == {k \in DOMAIN issues : PutsFor(issues[k].key) # {}}

\* C10: at Done, the count of the summary line is the number of tickets to
\* which the release was added by a PUT.
C10_SummaryCountsAddedTickets ==
    pc = "Done" =>
        Printed([line |-> "Created release and added it as a fixVersion to issues",
                 name |-> release_name, count |-> Cardinality(TicketsAdded)])
====
